---- MODULE Spec2Model ----
(***************************************************************************)
(* Model of nowoptics-back, src/server.js (lines 1-254): the WebSocket hub *)
(* (the `clients` Map, the message and close handlers, broadcast) and the  *)
(* HTTP message handlers with their Redis calls.                           *)
(*                                                                         *)
(* The Node event loop is single-threaded: a handler runs without          *)
(* interruption up to its next `await`.  All Redis commands travel over    *)
(* one connection and are executed in the order they are issued, so a      *)
(* command takes effect when it is issued and its reply is consumed by the *)
(* continuation, which is a later step.  Every action below is one such    *)
(* run-to-next-await segment.                                              *)
(***************************************************************************)
EXTENDS Integers, Sequences, FiniteSets, TLC

\* ---------------------------------------------------------------- bounds
MaxConns == 2      \* connection handles (ws objects) that may ever connect
MaxKeys == 1       \* distinct non-empty userKey / target values
MaxReqs == 2       \* HTTP requests that may be in progress at a time
MaxClock == 2      \* largest timestamp a clock reading can return
MaxReqId == 3      \* largest id an update or delete request names

Conns == 1..MaxConns
\* 0 stands for a missing (undefined) userKey / target / sender field
UserKeys == 0..MaxKeys
Reqs == 1..MaxReqs

SignalTypesAlt == {"offer", "answer", "candidate", "ping"}
SignalTypes == {"offer", "answer", "candidate"}

\* a parsed inbound frame; sdp is the opaque payload ("" when absent)
NoFrame == [type |-> "", userKey |-> 0, target |-> 0, sender |-> 0, sdp |-> ""]
RegisterFrames == {[NoFrame EXCEPT !.type = "register", !.userKey = k] : k \in UserKeys}
\* signalling frames; a client may put a sender field of its own in the frame
SignalFrames ==
    {[NoFrame EXCEPT !.type = f.type, !.userKey = f.userKey, !.sender = f.sender,
                     !.target = t, !.sdp = "v=0"] :
        f \in {[type |-> "offer", userKey |-> 1, sender |-> 0],
                [type |-> "answer", userKey |-> 1, sender |-> 2],
                [type |-> "candidate", userKey |-> 0, sender |-> 1]},
        t \in UserKeys}
OtherFrames == {[NoFrame EXCEPT !.type = "ping", !.userKey = 1]}
Frames == RegisterFrames \cup SignalFrames \cup OtherFrames
\* a raw text message: a JSON object, or text that JSON.parse rejects
Malformed == [NoFrame EXCEPT !.type = "<malformed>"]
RawMessages == Frames \cup {Malformed}

VARIABLES
    clients,      \* the Map userKey -> ws, as its entries in insertion order
    connState,    \* per ws: "new", "open", "closing" (socket no longer OPEN,
                  \* close event not yet emitted), "closed"
    regLog,       \* history: per userKey, the last two distinct connections
                  \* that sent a register frame with it, most recent last
    last,         \* history: the step just taken and the ws.send calls it made
    store,        \* Redis hashes message:<id>, as a function from id to record
    counter,      \* the Redis key message_id
    now,          \* the latest clock reading
    init,         \* the position of initializeMessages
    req,          \* the HTTP requests: position, locals, response
    issued,       \* history: the ids generateId has returned, in order
    deleted,      \* history: the ids whose DELETE request was answered 200
    inbox         \* per connection: the broadcasts sent to it so far, oldest
                  \* first, each named by its place in the order of broadcast calls

\* ------------------------------------------------------- the Map `clients`
RECURSIVE IndexOf(_, _, _)
IndexOf(m, k, i) ==
    IF i > Len(m) THEN 0
    ELSE IF m[i].userKey = k THEN i ELSE IndexOf(m, k, i + 1)

MapHas(m, k) == IndexOf(m, k, 1) # 0

\* Map.prototype.get; 0 models undefined
MapGet(m, k) == IF MapHas(m, k) THEN m[IndexOf(m, k, 1)].ws ELSE 0

\* Map.prototype.set: an existing key keeps its position, a new one is appended
MapSet(m, k, v) ==
    IF MapHas(m, k)
    THEN [m EXCEPT ![IndexOf(m, k, 1)] = [userKey |-> k, ws |-> v]]
    ELSE Append(m, [userKey |-> k, ws |-> v])

MapDelete(m, k) == SelectSeq(m, LAMBDA e : e.userKey # k)

MapValues(m) == {m[i].ws : i \in 1..Len(m)}

\* ---------------------------------------------------------------- sending
\* ws.send: a send on a socket that is not OPEN throws in the builds where
\* wsThrows holds and is dropped in the others
SendOutcome(state, throws) ==
    IF state = "open" THEN "ok"
    ELSE IF throws THEN "threw" ELSE "dropped"

SendCall(ws, data, state, throws) ==
    [to |-> ws, data |-> data, result |-> SendOutcome(state[ws], throws)]

\* JSON.stringify({...parsedMessage, sender: parsedMessage.userKey})
RelayFrameAlt(parsedMessage) == parsedMessage
RelayFrame(parsedMessage) ==
    [parsedMessage EXCEPT !.sender = parsedMessage.userKey]

\* clients.forEach((ws) => ws.send(JSON.stringify(data))): entries are visited
\* in insertion order; a send that throws ends the iteration
RECURSIVE broadcastFrom(_, _, _, _, _)
broadcastFrom(m, i, data, state, throws) ==
    IF i > Len(m) THEN <<>>
    ELSE LET call == SendCall(m[i].ws, data, state, throws)
         IN  IF call.result = "threw" THEN <<call>>
             ELSE <<call>> \o broadcastFrom(m, i + 1, data, state, throws)

broadcast(m, data, state, throws) == broadcastFrom(m, 1, data, state, throws)

\* Whether ws.send on a socket that is not OPEN throws depends on the version
\* of the ws library.  The handlers take it as the parameter wsThrows; the
\* version that does not throw is considered where it makes a difference
BuildMatters(wsThrows, callsIfThrows, callsIfNot) ==
    wsThrows \/ callsIfThrows # callsIfNot

Threw(calls) == \E i \in 1..Len(calls) : calls[i].result = "threw"
Delivered(calls) == {calls[i].to : i \in {j \in 1..Len(calls) : calls[j].result = "ok"}}

\* the sends of one broadcast call that succeed reach their sockets in the
\* order they were made, behind everything sent to the same socket before
Serial(box) ==
    LET seen == UNION {{box[ws][i] : i \in 1..Len(box[ws])} : ws \in Conns}
    IN  IF seen = {} THEN 1 ELSE 1 + (CHOOSE n \in seen : \A m \in seen : m <= n)
ReceiveAlt(box, calls) ==
    [ws \in Conns |->
        [i \in 1..Len(SelectSeq(calls, LAMBDA c : c.to = ws /\ c.result = "ok")) |->
            Serial(box)] \o box[ws]]
Receive(box, calls) ==
    [ws \in Conns |->
        box[ws] \o
        [i \in 1..Len(SelectSeq(calls, LAMBDA c : c.to = ws /\ c.result = "ok")) |->
            Serial(box)]]

\* ------------------------------------------------------------- hub actions
\* `last` describes the step just taken when it ran the relay branch of the
\* message handler or answered an HTTP request, and is NoStep after any other
NoStep == [ev |-> "none", frame |-> NoFrame, out |-> <<>>, ws |-> 0,
           req |-> 0, op |-> "", id |-> 0, status |-> 0, trace |-> <<>>,
           body |-> <<>>]

httpVars == <<store, counter, now, init, req, issued, deleted, inbox>>

\* wss.on('connection'); the handles are numbered in the order in which the
\* connections are made
Connection(ws) ==
    /\ connState[ws] = "new"
    /\ IF ws = 1 THEN TRUE ELSE connState[ws - 1] # "new"
    /\ connState' = [connState EXCEPT ![ws] = "open"]
    /\ last' = NoStep
    /\ UNCHANGED <<clients, regLog, httpVars>>

\* the registry after the message handler has run on a parsed frame
RegisterAlt(m, parsedMessage, ws) ==
    IF parsedMessage.type = "register" /\ ~MapHas(m, parsedMessage.userKey)
    THEN MapSet(m, parsedMessage.userKey, ws)
    ELSE m
Register(m, parsedMessage, ws) ==
    IF parsedMessage.type = "register"
    THEN MapSet(m, parsedMessage.userKey, ws)
    ELSE m

\* the ws.send calls the message handler makes on a parsed frame
RelayAlt(m, parsedMessage, state, throws) ==
    IF parsedMessage.type \in SignalTypes
    THEN broadcast(m, RelayFrame(parsedMessage), state, throws)
    ELSE <<>>
Relay(m, parsedMessage, state, throws) ==
    IF parsedMessage.type \in SignalTypes /\ MapGet(m, parsedMessage.target) # 0
    THEN <<SendCall(MapGet(m, parsedMessage.target), RelayFrame(parsedMessage),
                    state, throws)>>
    ELSE <<>>

\* appends ws to the registrants of k, keeping the last two distinct ones
LogRegister(log, message, ws) ==
    LET k == message.userKey
        others == SelectSeq(log[k], LAMBDA c : c # ws)
    IN  IF message.type # "register" THEN log
        ELSE [log EXCEPT ![k] = IF others = <<>> THEN <<ws>>
                                ELSE <<others[Len(others)], ws>>]

\* ws.on('message'): JSON.parse throws on malformed text, and so may the
\* send; the catch block logs either and the handler returns
OnMessageAlt(ws, message, wsThrows) ==
    /\ connState[ws] = "open"
    /\ BuildMatters(wsThrows, Relay(clients, message, connState, TRUE),
                    Relay(clients, message, connState, FALSE))
    /\ IF message = Malformed
       THEN /\ last' = [NoStep EXCEPT !.ev = "message", !.frame = message]
            /\ connState' = [connState EXCEPT ![ws] = "closing"]
            /\ UNCHANGED clients
       ELSE /\ clients' = Register(clients, message, ws)
            /\ last' = IF message.type = "register" THEN NoStep
                        ELSE [NoStep EXCEPT !.ev = "message", !.frame = message,
                                 !.out = Relay(clients, message, connState, wsThrows)]
            /\ UNCHANGED connState
    /\ UNCHANGED httpVars
OnMessage(ws, message, wsThrows) ==
    /\ connState[ws] = "open"
    /\ BuildMatters(wsThrows, Relay(clients, message, connState, TRUE),
                    Relay(clients, message, connState, FALSE))
    /\ IF message = Malformed
       THEN /\ last' = [NoStep EXCEPT !.ev = "message", !.frame = message]
            /\ UNCHANGED clients
       ELSE /\ clients' = Register(clients, message, ws)
            /\ last' = IF message.type = "register" THEN NoStep
                        ELSE [NoStep EXCEPT !.ev = "message", !.frame = message,
                                 !.out = Relay(clients, message, connState, wsThrows)]
    /\ UNCHANGED <<connState, httpVars>>

\* the socket leaves the OPEN state (peer went away); the close event follows
SocketClosing(ws) ==
    /\ connState[ws] = "open"
    /\ connState' = [connState EXCEPT ![ws] = "closing"]
    /\ last' = NoStep
    /\ UNCHANGED <<clients, regLog, httpVars>>

\* clients.forEach((client, userKey) => { if (client === ws) clients.delete(userKey) }):
\* deleting the entry being visited does not disturb the visit of the others
RECURSIVE removeFrom(_, _, _)
removeFrom(m, i, ws) ==
    IF i > Len(m) THEN m
    ELSE IF m[i].ws = ws
         THEN removeFrom(MapDelete(m, m[i].userKey), i, ws)
         ELSE removeFrom(m, i + 1, ws)

CloseCleanupAlt(m, ws) ==
    IF \E i \in 1..Len(m) : m[i].ws = ws
    THEN MapDelete(m, m[CHOOSE i \in 1..Len(m) : m[i].ws = ws].userKey)
    ELSE m
CloseCleanup(m, ws) == removeFrom(m, 1, ws)

\* ws.on('close')
OnCloseAlt(ws) ==
    /\ connState[ws] \in {"open", "closing"}
    /\ connState' = [connState EXCEPT ![ws] = "closed"]
    /\ last' = NoStep
    /\ UNCHANGED <<clients, regLog, httpVars>>
OnClose(ws) ==
    /\ connState[ws] \in {"open", "closing"}
    /\ connState' = [connState EXCEPT ![ws] = "closed"]
    /\ clients' = CloseCleanup(clients, ws)
    /\ last' = NoStep
    /\ UNCHANGED <<regLog, httpVars>>

\* the close handler run once more for a connection whose close event has
\* been handled already
OnCloseAgainAlt(ws) ==
    /\ connState[ws] = "closed"
    /\ clients' = SelectSeq(clients, LAMBDA e : \A i \in 1..Len(regLog[e.userKey]) :
                                                  regLog[e.userKey][i] # ws)
    /\ last' = [NoStep EXCEPT !.ev = "close", !.ws = ws]
    /\ UNCHANGED <<connState, regLog, httpVars>>
OnCloseAgain(ws) ==
    /\ connState[ws] = "closed"
    /\ clients' = CloseCleanup(clients, ws)
    /\ last' = [NoStep EXCEPT !.ev = "close", !.ws = ws]
    /\ UNCHANGED <<connState, regLog, httpVars>>

\* ------------------------------------------------------------ the store
Fields == {"id", "sender_id", "receiver_id", "content", "created_at", "updated_at"}
\* a hash with no fields: what HGETALL returns for a missing key.  A field
\* that is absent, null or empty is 0 or ""
NoMsg == [id |-> 0, sender_id |-> "", receiver_id |-> "", content |-> "",
          created_at |-> 0, updated_at |-> 0]

\* redis.incr('message_id'): the incremented value, returned and stored
generateIdAlt(c) == IF c = 0 THEN 1 ELSE c
generateId(c) == c + 1

\* redis.hmset(key, values): sets the fields named in fs, creating the hash
\* when the key does not exist and keeping the other fields when it does
hmset(s, id, fs, values) ==
    [i \in DOMAIN s \cup {id} |->
        IF i # id THEN s[i]
        ELSE [f \in Fields |-> IF f \in fs THEN values[f]
                               ELSE IF id \in DOMAIN s THEN s[id][f] ELSE NoMsg[f]]]

\* redis.hgetall(key)
hgetall(s, id) == IF id \in DOMAIN s THEN s[id] ELSE NoMsg

\* redis.exists(key) and the reply of redis.del(key)
exists(s, id) == IF id \in DOMAIN s THEN 1 ELSE 0

\* redis.del(key)
del(s, id) == [i \in DOMAIN s \ {id} |-> s[i]]

defaultMessages ==
    <<[NoMsg EXCEPT !.sender_id = "user_one", !.receiver_id = "user_two",
                    !.content = "Hey whats up!"],
      [NoMsg EXCEPT !.sender_id = "user_two", !.receiver_id = "user_one",
                    !.content = "Hi there, this chat is amazing!"]>>

\* ------------------------------------------------------ initializeMessages
\* the listen callback has issued redis.keys('message:*') (Init); its reply
\* decides whether the default messages are created
InitAfterKeys ==
    /\ init.pc = "keys"
    /\ IF init.existingKeys = 0
       THEN /\ counter' = generateId(counter)
            /\ issued' = Append(issued, generateId(counter))
            /\ init' = [init EXCEPT !.pc = "incr", !.i = 1, !.id = generateId(counter)]
       ELSE /\ init' = [init EXCEPT !.pc = "done"]
            /\ UNCHANGED <<counter, issued>>
    /\ last' = NoStep
    /\ UNCHANGED <<clients, connState, regLog, store, now, req, deleted, inbox>>

InitAfterIncr ==
    /\ init.pc = "incr"
    /\ \E timestamp \in now..MaxClock :
        /\ now' = timestamp
        /\ store' = hmset(store, init.id, Fields,
                          [defaultMessages[init.i] EXCEPT !.id = init.id,
                                                          !.created_at = timestamp])
    /\ init' = [init EXCEPT !.pc = "hmset"]
    /\ last' = NoStep
    /\ UNCHANGED <<clients, connState, regLog, counter, req, issued, deleted, inbox>>

InitAfterHmset ==
    /\ init.pc = "hmset"
    /\ IF init.i < Len(defaultMessages)
       THEN /\ counter' = generateId(counter)
            /\ issued' = Append(issued, generateId(counter))
            /\ init' = [init EXCEPT !.pc = "incr", !.i = init.i + 1,
                                    !.id = generateId(counter)]
       ELSE /\ init' = [init EXCEPT !.pc = "done"]
            /\ UNCHANGED <<counter, issued>>
    /\ last' = NoStep
    /\ UNCHANGED <<clients, connState, regLog, store, now, req, deleted, inbox>>

\* ----------------------------------------------------------- HTTP requests
NoReq == [op |-> "", pc |-> "idle", id |-> 0, body |-> NoMsg, result |-> 0,
          data |-> NoMsg, trace |-> <<>>, keys |-> <<>>, messages |-> <<>>]

PostBodies == {[NoMsg EXCEPT !.sender_id = "u1", !.receiver_id = "u2", !.content = c] :
                  c \in {"", "hi"}}
PutContents == {"", "edited"}
ReqIds == 1..MaxReqId

\* requests are numbered in the order in which they arrive
Arrives(r) == req[r].pc = "idle" /\ (IF r = 1 THEN TRUE ELSE req[r - 1].pc # "idle")

\* res.status(status).json(...): the request is over and its locals are gone
Respond(r, rq, status, calls) ==
    /\ req' = [req EXCEPT ![r] = [NoReq EXCEPT !.pc = "done"]]
    /\ deleted' = IF rq.op = "DELETE" /\ status = 200 THEN deleted \cup {rq.id}
                  ELSE deleted
    /\ inbox' = Receive(inbox, calls)
    /\ last' = [NoStep EXCEPT !.ev = "http", !.req = r, !.op = rq.op, !.id = rq.id,
                              !.status = status, !.out = calls, !.body = rq.messages,
                              !.trace = Append(rq.trace, "respond")]

\* the handler issues the store command cmd and waits for its reply
Await(r, rq, pc, cmd) ==
    /\ req' = [req EXCEPT ![r] = [rq EXCEPT !.pc = pc, !.trace = Append(rq.trace, cmd)]]
    /\ last' = NoStep
    /\ UNCHANGED <<deleted, inbox>>

\* broadcast(event) followed by the success response; an exception thrown by
\* broadcast reaches the handler's catch block, which responds 500
BroadcastAndRespond(r, type, data, status, wsThrows) ==
    LET calls == broadcast(clients, [type |-> type, data |-> data], connState, wsThrows)
        rq == [req[r] EXCEPT !.trace = Append(req[r].trace, type)]
    IN  /\ BuildMatters(wsThrows,
                        broadcast(clients, [type |-> type, data |-> data], connState, TRUE),
                        broadcast(clients, [type |-> type, data |-> data], connState, FALSE))
        /\ Respond(r, rq, IF Threw(calls) THEN 500 ELSE status, calls)

\* app.post('/messages') up to the await in generateId
PostMessages(r, body) ==
    /\ Arrives(r)
    /\ LET rq == [NoReq EXCEPT !.op = "POST", !.body = body]
       IN  IF body.sender_id = "" \/ body.receiver_id = "" \/ body.content = ""
           THEN /\ Respond(r, rq, 400, <<>>)
                /\ UNCHANGED <<counter, issued>>
           ELSE /\ counter' = generateId(counter)
                /\ issued' = Append(issued, generateId(counter))
                /\ Await(r, [rq EXCEPT !.id = generateId(counter)], "incr", "incr")
    /\ UNCHANGED <<clients, connState, regLog, store, now, init>>

\* createMessage from the reply of incr to the await of hmset
CreateAfterIncr(r) ==
    /\ req[r].op = "POST" /\ req[r].pc = "incr"
    /\ \E timestamp \in now..MaxClock :
        LET messageData == [req[r].body EXCEPT !.id = req[r].id,
                                               !.created_at = timestamp]
        IN  /\ now' = timestamp
            /\ store' = hmset(store, req[r].id, Fields, messageData)
            /\ Await(r, [req[r] EXCEPT !.data = messageData], "hmset", "hmset")
    /\ UNCHANGED <<clients, connState, regLog, counter, init, issued>>

\* app.post('/messages') after createMessage has returned
PostAfterCreateAlt(r, wsThrows) ==
    /\ req[r].op = "POST" /\ req[r].pc = "hmset"
    /\ wsThrows
    /\ Respond(r, req[r], 201, <<>>)
    /\ UNCHANGED <<clients, connState, regLog, store, counter, now, init, issued>>
PostAfterCreate(r, wsThrows) ==
    /\ req[r].op = "POST" /\ req[r].pc = "hmset"
    /\ BroadcastAndRespond(r, "new_message", req[r].data, 201, wsThrows)
    /\ UNCHANGED <<clients, connState, regLog, store, counter, now, init, issued>>

\* app.put('/messages/:id') up to the await of redis.exists
PutMessage(r, id, content) ==
    /\ Arrives(r)
    /\ LET rq == [NoReq EXCEPT !.op = "PUT", !.id = id, !.body.content = content]
       IN  IF content = ""
           THEN Respond(r, rq, 400, <<>>)
           ELSE Await(r, [rq EXCEPT !.result = exists(store, id)], "exists", "exists")
    /\ UNCHANGED <<clients, connState, regLog, store, counter, now, init, issued>>

\* from the reply of exists to the await of hmset in updateMessageById
PutAfterExistsAlt(r) ==
    /\ req[r].op = "PUT" /\ req[r].pc = "exists"
    /\ IF req[r].result = 0
       THEN /\ Respond(r, req[r], 404, <<>>)
            /\ UNCHANGED <<store, now>>
       ELSE \E updatedAt \in now..MaxClock :
            /\ now' = updatedAt
            /\ store' = hmset(store, req[r].id, Fields,
                              [NoMsg EXCEPT !.content = req[r].body.content,
                                            !.updated_at = updatedAt])
            /\ Await(r, req[r], "hmset", "hmset")
    /\ UNCHANGED <<clients, connState, regLog, counter, init, issued>>
PutAfterExists(r) ==
    /\ req[r].op = "PUT" /\ req[r].pc = "exists"
    /\ IF req[r].result = 0
       THEN /\ Respond(r, req[r], 404, <<>>)
            /\ UNCHANGED <<store, now>>
       ELSE \E updatedAt \in now..MaxClock :
            /\ now' = updatedAt
            /\ store' = hmset(store, req[r].id, {"content", "updated_at"},
                              [NoMsg EXCEPT !.content = req[r].body.content,
                                            !.updated_at = updatedAt])
            /\ Await(r, req[r], "hmset", "hmset")
    /\ UNCHANGED <<clients, connState, regLog, counter, init, issued>>

\* updateMessageById from the reply of hmset to the await of hgetall
UpdateAfterHmset(r) ==
    /\ req[r].op = "PUT" /\ req[r].pc = "hmset"
    /\ Await(r, [req[r] EXCEPT !.data = hgetall(store, req[r].id)], "hgetall", "hgetall")
    /\ UNCHANGED <<clients, connState, regLog, store, counter, now, init, issued>>

\* app.put('/messages/:id') after updateMessageById has returned
PutAfterUpdate(r, wsThrows) ==
    /\ req[r].op = "PUT" /\ req[r].pc = "hgetall"
    /\ BroadcastAndRespond(r, "update_message", req[r].data, 200, wsThrows)
    /\ UNCHANGED <<clients, connState, regLog, store, counter, now, init, issued>>

\* app.delete('/messages/:id') up to the await of redis.del
DeleteMessage(r, id) ==
    /\ Arrives(r)
    /\ store' = del(store, id)
    /\ Await(r, [NoReq EXCEPT !.op = "DELETE", !.id = id, !.result = exists(store, id)],
             "del", "del")
    /\ UNCHANGED <<clients, connState, regLog, counter, now, init, issued>>

\* app.delete('/messages/:id') after the reply of del
DeleteAfterDelAlt(r, wsThrows) ==
    /\ req[r].op = "DELETE" /\ req[r].pc = "del"
    /\ BroadcastAndRespond(r, "delete_message", [NoMsg EXCEPT !.id = req[r].id],
                           200, wsThrows)
    /\ UNCHANGED <<clients, connState, regLog, store, counter, now, init, issued>>
DeleteAfterDel(r, wsThrows) ==
    /\ req[r].op = "DELETE" /\ req[r].pc = "del"
    /\ IF req[r].result = 0
       THEN wsThrows /\ Respond(r, req[r], 404, <<>>)
       ELSE BroadcastAndRespond(r, "delete_message", [NoMsg EXCEPT !.id = req[r].id],
                                200, wsThrows)
    /\ UNCHANGED <<clients, connState, regLog, store, counter, now, init, issued>>

\* app.get('/messages/:id') up to the await of redis.hgetall in getMessageById
GetMessage(r, id) ==
    /\ Arrives(r)
    /\ Await(r, [NoReq EXCEPT !.op = "GET", !.id = id, !.data = hgetall(store, id)],
             "hgetall", "hgetall")
    /\ UNCHANGED <<clients, connState, regLog, store, counter, now, init, issued>>

\* app.get('/messages/:id') after the reply: Object.keys(message).length === 0
\* holds of a hash with no fields
GetAfterHgetall(r) ==
    /\ req[r].op = "GET" /\ req[r].pc = "hgetall"
    /\ Respond(r, req[r], IF req[r].data = NoMsg THEN 404 ELSE 200, <<>>)
    /\ UNCHANGED <<clients, connState, regLog, store, counter, now, init, issued>>

\* the orders in which redis.keys can reply with the keys of the stored hashes
Orders(ids) ==
    {keys \in [1..Cardinality(ids) -> ids] :
        \A i, j \in 1..Cardinality(ids) : keys[i] = keys[j] => i = j}

\* (a, b) => new Date(a.created_at) - new Date(b.created_at): the difference is
\* NaN when either record has no created_at, and sort takes NaN for 0
compareFn(a, b) ==
    IF a.created_at = 0 \/ b.created_at = 0 THEN 0 ELSE a.created_at - b.created_at

\* messages.sort(compareFn) as an insertion sort, which is stable; where
\* compareFn is a consistent order every stable sort gives this result
RECURSIVE Insert(_, _)
Insert(sorted, element) ==
    IF sorted = <<>> THEN <<element>>
    ELSE IF compareFn(sorted[Len(sorted)], element) > 0
         THEN Append(Insert(SubSeq(sorted, 1, Len(sorted) - 1), element),
                     sorted[Len(sorted)])
         ELSE Append(sorted, element)

RECURSIVE sort(_)
sort(messages) ==
    IF messages = <<>> THEN <<>>
    ELSE Insert(sort(SubSeq(messages, 1, Len(messages) - 1)), messages[Len(messages)])

\* app.get('/messages') up to the await of redis.keys in getAllMessages
ListMessages(r) ==
    /\ Arrives(r)
    /\ \E keys \in Orders(DOMAIN store) :
          Await(r, [NoReq EXCEPT !.op = "LIST", !.keys = keys], "keys", "keys")
    /\ UNCHANGED <<clients, connState, regLog, store, counter, now, init, issued>>

\* the loop of getAllMessages: the record read for the previous key is pushed
\* and the hgetall of the next key is awaited
ListNextKey(r) ==
    /\ req[r].op = "LIST" /\ req[r].pc \in {"keys", "hgetall"}
    /\ Len(req[r].messages) < Len(req[r].keys)
    /\ Await(r, [req[r] EXCEPT !.messages =
                     Append(@, hgetall(store, req[r].keys[Len(req[r].messages) + 1]))],
             "hgetall", "hgetall")
    /\ UNCHANGED <<clients, connState, regLog, store, counter, now, init, issued>>

\* getAllMessages after the loop, and the response of app.get('/messages')
ListAfterLoop(r) ==
    /\ req[r].op = "LIST" /\ req[r].pc \in {"keys", "hgetall"}
    /\ Len(req[r].messages) = Len(req[r].keys)
    /\ Respond(r, [req[r] EXCEPT !.messages = sort(@)], 200, <<>>)
    /\ UNCHANGED <<clients, connState, regLog, store, counter, now, init, issued>>

\* the awaited store command rejects (the command may or may not have been
\* executed; the model takes it as executed): the handler's catch block
\* answers 500
StoreErrorAlt(r) ==
    /\ req[r].pc \in {"incr", "hmset", "exists", "hgetall", "del", "keys"}
    /\ BroadcastAndRespond(r, "error", NoMsg, 500, TRUE)
    /\ UNCHANGED <<clients, connState, regLog, store, counter, now, init, issued>>
StoreError(r) ==
    /\ req[r].pc \in {"incr", "hmset", "exists", "hgetall", "del", "keys"}
    /\ Respond(r, [req[r] EXCEPT !.trace = Append(@, "error")], 500, <<>>)
    /\ UNCHANGED <<clients, connState, regLog, store, counter, now, init, issued>>

\* a later request is served once an earlier one has been answered
Recycle(r) ==
    /\ req[r].pc = "done"
    /\ req' = [req EXCEPT ![r] = NoReq]
    /\ last' = NoStep
    /\ UNCHANGED <<clients, connState, regLog, store, counter, now, init, issued, deleted, inbox>>

vars == <<clients, connState, regLog, last, store, counter, now, init, req, issued,
         deleted, inbox>>

\* A fresh Redis, or one that holds the default messages of an earlier run
InitStores ==
    {[store |-> <<>>, counter |-> 0, issued |-> <<>>],
     [store |-> hmset(hmset(<<>>, 1, Fields, [defaultMessages[1] EXCEPT !.id = 1, !.created_at = 1]),
                      2, Fields, [defaultMessages[2] EXCEPT !.id = 2, !.created_at = 1]),
      counter |-> 2, issued |-> <<1, 2>>]}

Init ==
    /\ clients = <<>>
    /\ connState = [ws \in Conns |-> "new"]
    /\ regLog = [k \in UserKeys |-> <<>>]
    /\ last = NoStep
    /\ \E s \in InitStores :
        /\ store = s.store
        /\ counter = s.counter
        /\ issued = s.issued
        /\ init = [pc |-> "keys", existingKeys |-> Cardinality(DOMAIN s.store),
                   i |-> 0, id |-> 0]
    /\ now = 1
    /\ req = [r \in Reqs |-> NoReq]
    /\ deleted = {}
    /\ inbox = [ws \in Conns |-> <<>>]

\* the hub alone, with every kind of inbound frame
HubNext ==
    \/ \E ws \in Conns : Connection(ws)
    \/ \E ws \in Conns, message \in RawMessages, wsThrows \in BOOLEAN :
          OnMessage(ws, message, wsThrows) /\ UNCHANGED regLog
    \/ \E ws \in Conns : SocketClosing(ws)
    \/ \E ws \in Conns : OnClose(ws)

SpecHub == Init /\ [][HubNext]_vars

\* registration and relay, with the history of the register frames
RegistryNext ==
    \/ \E ws \in Conns : Connection(ws)
    \/ \E ws \in Conns, message \in RegisterFrames \cup SignalFrames :
          OnMessage(ws, message, TRUE) /\ regLog' = LogRegister(regLog, message, ws)
    \/ \E ws \in Conns : OnClose(ws)
    \/ \E ws \in Conns : OnCloseAgain(ws)

SpecRegistry == Init /\ [][RegistryNext]_vars

\* the handlers of the request r
Handle(r) ==
    \/ \E body \in PostBodies : PostMessages(r, body)
    \/ CreateAfterIncr(r)
    \/ \E wsThrows \in BOOLEAN : PostAfterCreate(r, wsThrows)
    \/ \E id \in ReqIds, content \in PutContents : PutMessage(r, id, content)
    \/ PutAfterExists(r)
    \/ UpdateAfterHmset(r)
    \/ \E wsThrows \in BOOLEAN : PutAfterUpdate(r, wsThrows)
    \/ \E id \in ReqIds : DeleteMessage(r, id)
    \/ \E wsThrows \in BOOLEAN : DeleteAfterDel(r, wsThrows)

\* one HTTP request next to the hub.  Only register frames change what a
\* broadcast does, so the other frames are left to SpecHub; start-up and
\* concurrent requests are left to SpecStore
Next ==
    \/ \E ws \in Conns : Connection(ws)
    \/ \E ws \in Conns, message \in RegisterFrames :
          OnMessage(ws, message, TRUE) /\ UNCHANGED regLog
    \/ \E ws \in Conns : SocketClosing(ws)
    \/ \E ws \in Conns : OnClose(ws)
    \/ Handle(1)

Spec == Init /\ [][Next]_vars

\* start-up and the HTTP requests against the store, with no socket connected
StoreNext ==
    \/ InitAfterKeys
    \/ InitAfterIncr
    \/ InitAfterHmset
    \/ \E r \in Reqs : Handle(r)

SpecStore == Init /\ [][StoreNext]_vars

\* any number of requests for messages that were created at some time, at
\* most MaxReqs of them in progress at a time, against the store as start-up
\* left it
Created == {issued[i] : i \in 1..Len(issued)}

RequestsNext ==
    \/ \E r \in Reqs : Recycle(r)
    \/ \E r \in Reqs, id \in Created, content \in PutContents : PutMessage(r, id, content)
    \/ \E r \in Reqs : PutAfterExists(r)
    \/ \E r \in Reqs : UpdateAfterHmset(r)
    \/ \E r \in Reqs : PutAfterUpdate(r, TRUE)
    \/ \E r \in Reqs, id \in Created : DeleteMessage(r, id)
    \/ \E r \in Reqs : DeleteAfterDel(r, TRUE)
    \/ \E r \in Reqs, id \in Created : GetMessage(r, id)
    \/ \E r \in Reqs : GetAfterHgetall(r)

SpecRequests == Init /\ [][RequestsNext]_vars

\* one request of any kind, whose store commands may fail, while connections
\* register and close
FailureNext ==
    \/ \E ws \in Conns : Connection(ws)
    \/ \E ws \in Conns, message \in RegisterFrames :
          OnMessage(ws, message, TRUE) /\ UNCHANGED regLog
    \/ \E ws \in Conns : OnClose(ws)
    \/ Handle(1)
    \/ \E id \in ReqIds : GetMessage(1, id)
    \/ GetAfterHgetall(1)
    \/ ListMessages(1)
    \/ ListNextKey(1)
    \/ ListAfterLoop(1)
    \/ StoreError(1)

SpecFailure == Init /\ [][FailureNext]_vars

\* register, signalling and close events, and one deletion of a stored
\* message, which is broadcast
SendsNext ==
    \/ \E ws \in Conns : Connection(ws)
    \/ \E ws \in Conns, message \in RegisterFrames \cup SignalFrames :
          OnMessage(ws, message, TRUE) /\ UNCHANGED regLog
    \/ \E ws \in Conns : OnClose(ws)
    \/ \E id \in DOMAIN store : DeleteMessage(1, id)
    \/ DeleteAfterDel(1, TRUE)

SpecSends == Init /\ [][SendsNext]_vars

\* listings, one at a time, while the requests of a second client create and
\* delete messages, one at a time; ids stay within ReqIds
ListNext ==
    \/ \E r \in {1, 2} : Recycle(r)
    \/ \E body \in PostBodies : counter < MaxReqId /\ PostMessages(2, body)
    \/ CreateAfterIncr(2)
    \/ PostAfterCreate(2, TRUE)
    \/ \E id \in DOMAIN store : DeleteMessage(2, id)
    \/ DeleteAfterDel(2, TRUE)
    \/ ListMessages(1)
    \/ ListNextKey(1)
    \/ ListAfterLoop(1)

SpecList == Init /\ [][ListNext]_vars

\* several deletions of stored messages answered one after another while
\* connections register and close
FanoutNext ==
    \/ \E ws \in Conns : Connection(ws)
    \/ \E ws \in Conns, message \in RegisterFrames :
          OnMessage(ws, message, TRUE) /\ UNCHANGED regLog
    \/ \E ws \in Conns : OnClose(ws)
    \/ \E r \in Reqs, id \in DOMAIN store : DeleteMessage(r, id)
    \/ \E r \in Reqs : DeleteAfterDel(r, TRUE)

SpecFanout == Init /\ [][FanoutNext]_vars

\* ================================================================ claims
IsRelayStep(l) == l.ev = "message" /\ l.frame.type \in SignalTypes
OpenConns == {ws \in Conns : connState[ws] = "open"}
StoreCommands == {"incr", "hmset", "exists", "hgetall", "del"}

\* C1: once a second connection has sent a register frame with a userKey that
\* an earlier connection had registered, a signalling frame whose target is
\* that key is sent to the later registrant only, never to the earlier one,
\* and is sent to it for as long as its close handler has not run.
C1_LastWriterWins ==
    (IsRelayStep(last) /\ Len(regLog[last.frame.target]) = 2) =>
        LET newer == regLog[last.frame.target][2]
        IN  /\ \A i \in 1..Len(last.out) : last.out[i].to = newer
            /\ connState[newer] # "closed" => Len(last.out) = 1

C1_Witness ==
    /\ IsRelayStep(last)
    /\ Len(regLog[last.frame.target]) = 2
    /\ connState[regLog[last.frame.target][1]] = "open"
    /\ Len(last.out) = 1
    /\ last.out[1].to = regLog[last.frame.target][2]
    /\ last.out[1].result = "ok"

\* C2: a signalling frame whose target is in the registry causes exactly one
\* send, to the connection registered under the target, of the inbound frame
\* with its fields unchanged and sender set to the inbound frame's userKey.
C2_SignalingRelay ==
    (IsRelayStep(last) /\ MapHas(clients, last.frame.target)) =>
        /\ Len(last.out) = 1
        /\ last.out[1].to = MapGet(clients, last.frame.target)
        /\ \A f \in {"type", "userKey", "target", "sdp"} :
              last.out[1].data[f] = last.frame[f]
        /\ last.out[1].data.sender = last.frame.userKey

C2_Witness ==
    /\ IsRelayStep(last)
    /\ MapHas(clients, last.frame.target)
    /\ Cardinality(MapValues(clients)) = 2
    /\ last.frame.userKey # 0
    /\ Len(last.out) = 1
    /\ last.out[1].result = "ok"
    /\ last.out[1].data.sender = last.frame.userKey

\* C3: a signalling frame whose target is not in the registry causes no send
\* to any connection and leaves the registry as it was.
C3_UnknownTargetDropped ==
    [][(IsRelayStep(last') /\ ~MapHas(clients, last'.frame.target)) =>
          (last'.out = <<>> /\ clients' = clients)]_vars

C3_Witness ==
    /\ IsRelayStep(last)
    /\ last.frame.target # 0
    /\ ~MapHas(clients, last.frame.target)
    /\ Len(clients) >= 1
    /\ last.out = <<>>

\* C4: when a send throws during a broadcast, the event is still delivered to
\* every other connection of the registry (those whose send does not throw).
C4_BroadcastIsolation ==
    (last.ev = "http" /\ Threw(last.out)) =>
        MapValues(clients) \cap OpenConns \subseteq Delivered(last.out)

\* C5: after POST /messages has responded 201, every connection open at the
\* time of the broadcast has received the new_message event, registered or not.
C5_AllOpenReceive ==
    (last.ev = "http" /\ last.op = "POST" /\ last.status = 201) =>
        \A ws \in OpenConns :
            \E i \in 1..Len(last.out) :
                /\ last.out[i].to = ws
                /\ last.out[i].result = "ok"
                /\ last.out[i].data = [type |-> "new_message",
                                       data |-> hgetall(store, last.id)]

\* C6: a create, update or delete request that responds with success has
\* issued its store commands, then made exactly one broadcast call with the
\* matching event kind, then responded.
MatchingEvent(op) ==
    IF op = "POST" THEN "new_message"
    ELSE IF op = "PUT" THEN "update_message" ELSE "delete_message"

WriteCommand(op) == IF op = "DELETE" THEN "del" ELSE "hmset"

C6_PersistBroadcastRespond ==
    (last.ev = "http" /\ last.status \in {200, 201}) =>
        LET t == last.trace
            n == Len(t)
        IN  /\ n >= 3
            /\ t[n] = "respond"
            /\ t[n - 1] = MatchingEvent(last.op)
            /\ \A i \in 1..(n - 2) : t[i] \in StoreCommands
            /\ \E i \in 1..(n - 2) : t[i] = WriteCommand(last.op)

C6_Witness ==
    /\ last.ev = "http" /\ last.op = "PUT" /\ last.status = 200
    /\ last.trace = <<"exists", "hmset", "hgetall", "update_message", "respond">>
    /\ Len(last.out) >= 1

\* C7: DELETE /messages/:id for an id with no stored record leaves the store
\* unchanged, makes no broadcast call and responds 404.
C7_DeleteMissing ==
    [][\A r \in Reqs :
        /\ (req[r].pc = "idle" /\ req'[r].op = "DELETE" /\ req'[r].id \notin DOMAIN store)
              => (store' = store /\ req'[r].result = 0)
        /\ (req[r].op = "DELETE" /\ req[r].result = 0 /\ req'[r].pc = "done")
              => /\ last'.status = 404
                 /\ last'.out = <<>>
                 /\ last'.trace = <<"del", "respond">>
                 /\ store' = store]_vars

C7_Witness ==
    /\ last.ev = "http" /\ last.op = "DELETE" /\ last.status = 404
    /\ last.id \notin DOMAIN store
    /\ Len(clients) >= 1

\* C8: every connection is the value of at most one registry entry.
C8_OneEntryPerConnection ==
    \A i, j \in 1..Len(clients) : clients[i].ws = clients[j].ws => i = j

\* C9: the close handler removes exactly the registry entries whose value is
\* the closing connection and leaves every other entry as it was.
C9_CloseRemovesOwnEntries ==
    [][\A ws \in Conns :
        (connState[ws] # "closed" /\ connState'[ws] = "closed") =>
            clients' = SelectSeq(clients, LAMBDA e : e.ws # ws)]_vars

C9_Witness ==
    \E k \in UserKeys :
        /\ Len(regLog[k]) = 2
        /\ connState[regLog[k][1]] = "closed"
        /\ MapGet(clients, k) = regLog[k][2]
        /\ \E ws \in Conns : connState[ws] = "closed" /\ regLog[k] = <<ws, regLog[k][2]>>

\* C10: every id generateId returns is greater than all ids issued before it.
C10_IdsIncrease ==
    \A i, j \in 1..Len(issued) : i < j => issued[i] < issued[j]

C10_Witness ==
    /\ last.ev = "http" /\ last.op = "POST" /\ last.status = 201
    /\ Len(issued) = 3
    /\ last.id = 2
    /\ DOMAIN store = {1, 2, 3}


\* C11: once a DELETE of an id has been answered 200, every GET of that id
\* that arrives afterwards finds no record and is answered 404
C11_DeletedStaysGone ==
    [][\A r \in Reqs :
        /\ (req[r].pc = "idle" /\ req'[r].op = "GET" /\ req'[r].id \in deleted) =>
               req'[r].data = NoMsg
        /\ (req[r].op = "GET" /\ req[r].data = NoMsg /\ req'[r].pc = "done") =>
               last'.status = 404]_vars

\* C12: the write of an update changes only content and updated_at of the
\* record with the request's id: id, sender_id, receiver_id and created_at keep
\* the values they had, every other record is untouched, and the new
\* updated_at is no earlier than the previous updated_at (than created_at if
\* the record was never updated)
C12_UpdateFrame ==
    [][\A r \in Reqs :
        (req[r].op = "PUT" /\ req[r].pc = "exists" /\ req'[r].pc = "hmset") =>
            LET id == req[r].id
                old == hgetall(store, id)
                new == hgetall(store', id)
            IN  /\ \A f \in {"id", "sender_id", "receiver_id", "created_at"} :
                       new[f] = old[f]
                /\ new.content = req[r].body.content
                /\ new.updated_at >= (IF old.updated_at # 0 THEN old.updated_at
                                      ELSE old.created_at)
                /\ \A other \in (DOMAIN store \cup DOMAIN store') \ {id} :
                       hgetall(store', other) = hgetall(store, other)]_vars

\* a second update of message 1, written at a later time than the first
C12_Witness ==
    \E r \in Reqs :
        /\ req[r].op = "PUT" /\ req[r].pc = "hmset" /\ req[r].id = 1
        /\ deleted = {}
        /\ 1 \in DOMAIN store
        /\ store[1].sender_id = "user_one" /\ store[1].created_at = 1
        /\ store[1].content = "edited" /\ store[1].updated_at = 2
        /\ \E q \in Reqs : req[q].op = "PUT" /\ req[q].pc = "hgetall" /\ req[q].id = 1

\* C13: when a send to some connection fails during the broadcast of a write,
\* the HTTP response is still the success response (201 for a create, 200 for
\* an update or a delete)
C13_SendFailureKeepsResponse ==
    (last.ev = "http" /\ Threw(last.out)) =>
        last.status = (IF last.op = "POST" THEN 201 ELSE 200)

C15_ListSorted ==
    (last.ev = "http" /\ last.op = "LIST" /\ last.status = 200) =>
        \A i, j \in 1..Len(last.body) :
            (i < j /\ last.body[i].created_at # 0 /\ last.body[j].created_at # 0) =>
                last.body[i].created_at <= last.body[j].created_at

\* C16: a frame that cannot be parsed is dropped: the handler sends nothing,
\* the registry is as it was, and every connection, the sender included, is
\* in the state it was in, so its later frames are handled as any other
C16_MalformedDropped ==
    [][(last'.ev = "message" /\ last'.frame = Malformed) =>
          /\ last'.out = <<>>
          /\ clients' = clients
          /\ connState' = connState]_vars

\* an unparsable frame has arrived while two connections are open and one
\* of them is registered
C16_Witness ==
    /\ last.ev = "message" /\ last.frame = Malformed
    /\ Len(clients) = 1
    /\ \A ws \in Conns : connState[ws] = "open"

\* C17: a signalling frame with no target is not forwarded to anyone,
\* whatever the registry holds
C17_NoTargetNotForwarded ==
    (IsRelayStep(last) /\ last.frame.target = 0) => last.out = <<>>

\* C18: a well-formed frame that is neither a register nor a signalling
\* frame is ignored: nothing is sent and the registry and the connections
\* are as they were
C18_OtherKindIgnored ==
    [][(last'.ev = "message" /\ last'.frame \in OtherFrames) =>
          (last'.out = <<>> /\ clients' = clients /\ connState' = connState)]_vars

\* a frame of another kind has arrived while both the key it carries and the
\* missing key are registered
C18_Witness ==
    /\ last.ev = "message" /\ last.frame \in OtherFrames
    /\ MapHas(clients, 0) /\ MapHas(clients, 1)

\* C19: a close notification handled again for a connection that was cleaned
\* up already leaves the registry as the first one left it, also where another
\* connection has registered under the same user key since
C19_CloseIdempotent ==
    [][last'.ev = "close" => clients' = clients]_vars

\* the close of a connection has been handled a second time while the key it
\* had registered is held by another connection, which is open
C19_Witness ==
    /\ last.ev = "close" /\ connState[last.ws] = "closed"
    /\ \E k \in UserKeys, other \in Conns :
          /\ regLog[k] = <<last.ws, other>>
          /\ connState[other] = "open"
          /\ MapGet(clients, k) = other

\* C20: when a store command fails inside an HTTP handler the response is
\* 500, no broadcast is made after the failing command, and the registry and
\* the connections are as they were, so frames are relayed as before
C20_StoreFailure ==
    [][(last'.ev = "http" /\ \E i \in 1..Len(last'.trace) : last'.trace[i] = "error") =>
          /\ last'.status = 500
          /\ last'.out = <<>>
          /\ \A i \in 1..Len(last'.trace) :
                last'.trace[i] \notin {MatchingEvent(op) : op \in {"POST", "PUT", "DELETE"}}
          /\ clients' = clients
          /\ connState' = connState
          /\ inbox' = inbox]_vars

\* the hgetall that follows the write of an update has failed while an open
\* connection is registered
C20_Witness ==
    /\ last.ev = "http" /\ last.op = "PUT"
    /\ last.trace = <<"exists", "hmset", "hgetall", "error", "respond">>
    /\ \E i \in 1..Len(clients) : connState[clients[i].ws] = "open"

\* C21: once the close event of a connection has been handled no registry
\* entry refers to that connection, and neither a relay nor a broadcast makes
\* a send to it
C21_RegistryConnsNotClosed ==
    /\ \A i \in 1..Len(clients) : connState[clients[i].ws] # "closed"
    /\ \A i \in 1..Len(last.out) : connState[last.out[i].to] # "closed"

\* a connection that was registered when the deletion was broadcast has been
\* closed since, and a signalling frame has just been relayed to another
C21_Witness ==
    /\ IsRelayStep(last) /\ last.out # <<>>
    /\ \E ws \in Conns : connState[ws] = "closed" /\ inbox[ws] # <<>>

\* C22: however create, update and delete requests interleave at their store
\* calls, every record in the store has id, sender_id, receiver_id, content
\* and created_at, and no update_message is broadcast for a message whose
\* deletion has been answered
C22_RecordsComplete ==
    /\ \A id \in DOMAIN store :
          /\ store[id].id # 0 /\ store[id].created_at # 0
          /\ store[id].sender_id # "" /\ store[id].receiver_id # ""
          /\ store[id].content # ""
    /\ (last.ev = "http" /\ last.op = "PUT" /\ last.status = 200) =>
          last.id \notin deleted

\* C23: one broadcast call makes at most one send to each connection,
\* whatever the registry holds
C23_OneCopyPerConnection ==
    last.ev = "http" =>
        \A i, j \in 1..Len(last.out) : last.out[i].to = last.out[j].to => i = j

====
